---- MODULE Spec2Model ----
(***************************************************************************)
(* A model of firepit/query.py: the clause classes (their constructors and *)
(* render methods), Query.__init__, Query.append with its combinator rules, *)
(* Query.extend, and Query.render, the left-to-right fold that lowers the   *)
(* stage sequence to SQL text plus bound values.                           *)
(*                                                                         *)
(* Python values are tagged records (field t).  SQL text is a sequence of   *)
(* pieces, one per literal chunk or interpolated string of the f-strings of *)
(* the source; Flatten gives the text itself.  A constructor or a method    *)
(* that can raise returns a record whose field err names the exception      *)
(* ("none" when it returns normally).                                       *)
(***************************************************************************)
EXTENDS Integers, Sequences, FiniteSets, TLC

VARIABLES stages, tables, seen, last, ident

vars == <<stages, tables, seen, last, ident>>

(***************************************************************************)
(* Python values                                                           *)
(***************************************************************************)
None == [t |-> "None"]

PyNone == None

PyStr(s) == [t |-> "str", v |-> s]

PyInt(n) == [t |-> "int", v |-> n]

PyList(xs) == [t |-> "list", v |-> xs]

PyTuple(xs) == [t |-> "tuple", v |-> xs]

PyBool(b) == [t |-> "bool", v |-> b]

\* bool(x)
Truthy(x) ==
    CASE x.t = "None" -> FALSE
      [] x.t = "str" -> x.v # ""
      [] x.t = "int" -> x.v # 0
      [] x.t = "bool" -> x.v
      [] x.t \in {"list", "tuple"} -> x.v # <<>>
      [] OTHER -> TRUE

\* str(x), as an f-string writes x, for None and for a string
str(x) == IF x.t = "None" THEN "None" ELSE x.v

Raise(e) == [err |-> e]

Ok(o) == [err |-> "none", obj |-> o]

(***************************************************************************)
(* Module constants                                                        *)
(***************************************************************************)
COMP_OPS == {"=", "<>", "!=", "<", ">", "<=", ">=", "LIKE", "IN", "IS", "IS NOT"}

PRED_OPS == {"AND", "OR"}

JOIN_TYPES == {"INNER", "OUTER", "LEFT OUTER", "CROSS"}

AGG_FUNCS == {"COUNT", "SUM", "MIN", "MAX", "AVG", "NUNIQUE"}

FilterOR == " OR "

FilterAND == " AND "

OrderASC == "ASC"

OrderDESC == "DESC"

(***************************************************************************)
(* Strings.  A character of Latin-1 (U+0000 to U+00FF) is written as        *)
(* itself.  A character beyond Latin-1 is written as its escape, \u and its *)
(* four hexadecimal digits in lower case (as Python's ascii() writes it),   *)
(* and is one character of the string: str_first and str_rest read a string   *)
(* one character at a time, str_len counts its characters.  A backslash     *)
(* followed by u and four such digits is always an escape.                  *)
(*                                                                         *)
(* The case mappings are those of str.upper and str.lower on Latin-1 and on *)
(* the thirty characters beyond it that the mappings relate to Latin-1      *)
(* (those whose upper or lower case contains a Latin-1 character, the       *)
(* upper and lower case of the Latin-1 characters, and the characters these *)
(* map to).  Strings are over this alphabet.  A string with another         *)
(* character has no upper case in Latin-1, so it is not the spelling of a   *)
(* word of JOIN_TYPES or AGG_FUNCS in any case.                             *)
(***************************************************************************)
LowerLetters == "abcdefghijklmnopqrstuvwxyzàáâãäåæçèéêëìíîïðñòóôõöøùúûüýþ"

UpperLetters == "ABCDEFGHIJKLMNOPQRSTUVWXYZÀÁÂÃÄÅÆÇÈÉÊËÌÍÎÏÐÑÒÓÔÕÖØÙÚÛÜÝÞ"

\* The characters of a string of Latin-1
Chars(s) == {SubSeq(s, i, i) : i \in 1..Len(s)}

HexDigits == Chars("0123456789abcdef")

\* Whether s starts with the escape of a character beyond Latin-1
IsEscape(s) ==
    /\ Len(s) >= 6
    /\ SubSeq(s, 1, 2) = "\\u"
    /\ \A i \in 3..6 : SubSeq(s, i, i) \in HexDigits

\* s[0] of a non-empty string
str_first(s) == IF IsEscape(s) THEN SubSeq(s, 1, 6) ELSE SubSeq(s, 1, 1)

\* s[1:] of a non-empty string
str_rest(s) == SubSeq(s, Len(str_first(s)) + 1, Len(s))

\* len(s)
RECURSIVE str_len(_)
str_len(s) == IF s = "" THEN 0 ELSE 1 + str_len(str_rest(s))

\* The characters whose upper case is not the letter at the same place of
\* UpperLetters: an upper case of several characters or beyond Latin-1, and
\* the characters beyond Latin-1 that have one
UpperSpecial ==
    {<<"ß", "SS">>, <<"µ", "\\u039c">>, <<"ÿ", "\\u0178">>,
     <<"\\u0131", "I">>, <<"\\u0149", "\\u02bcN">>, <<"\\u017f", "S">>,
     <<"\\u01f0", "J\\u030c">>, <<"\\u03bc", "\\u039c">>,
     <<"\\u1e96", "H\\u0331">>, <<"\\u1e97", "T\\u0308">>,
     <<"\\u1e98", "W\\u030a">>, <<"\\u1e99", "Y\\u030a">>,
     <<"\\u1e9a", "A\\u02be">>, <<"\\ufb00", "FF">>, <<"\\ufb01", "FI">>,
     <<"\\ufb02", "FL">>, <<"\\ufb03", "FFI">>, <<"\\ufb04", "FFL">>,
     <<"\\ufb05", "ST">>, <<"\\ufb06", "ST">>}

\* The characters beyond Latin-1 that have a lower case
LowerSpecial ==
    {<<"\\u0130", "i\\u0307">>, <<"\\u0178", "ÿ">>, <<"\\u039c", "\\u03bc">>,
     <<"\\u1e9e", "ß">>, <<"\\u212a", "k">>, <<"\\u212b", "å">>}

\* The pair of c in a set of pairs
PairOf(c, pairs) == CHOOSE p \in pairs : p[1] = c

\* The place of the character c in a string of Latin-1 that holds it
IndexOf(c, s) == CHOOSE k \in 1..Len(s) : SubSeq(s, k, k) = c

\* The case mappings, on the characters they change
UpperOf ==
    [c \in Chars(LowerLetters) \cup {p[1] : p \in UpperSpecial} |->
        IF \E p \in UpperSpecial : p[1] = c THEN PairOf(c, UpperSpecial)[2]
        ELSE LET i == IndexOf(c, LowerLetters) IN SubSeq(UpperLetters, i, i)]

LowerOf ==
    [c \in Chars(UpperLetters) \cup {p[1] : p \in LowerSpecial} |->
        IF \E p \in LowerSpecial : p[1] = c THEN PairOf(c, LowerSpecial)[2]
        ELSE LET i == IndexOf(c, UpperLetters) IN SubSeq(LowerLetters, i, i)]

\* The character c stands for under the mapping; c itself when it has none
MapChar(c, mapping) == IF c \in DOMAIN mapping THEN mapping[c] ELSE c

\* str.upper
RECURSIVE upper(_)
upper(s) ==
    IF s = "" THEN ""
    ELSE MapChar(str_first(s), UpperOf) \o upper(str_rest(s))

\* str.lower
RECURSIVE lower(_)
lower(s) ==
    IF s = "" THEN ""
    ELSE MapChar(str_first(s), LowerOf) \o lower(str_rest(s))

\* s.endswith('[*]')
endswith_star(s) == Len(s) >= 3 /\ SubSeq(s, Len(s) - 2, Len(s)) = "[*]"

\* s[:-3]
strip_star(s) == IF Len(s) <= 3 THEN "" ELSE SubSeq(s, 1, Len(s) - 3)

(***************************************************************************)
(* firepit.validate: the validator the module imports.  A bare identifier  *)
(* is letters, digits and underscores; a path is dot-separated identifiers  *)
(* with an optional trailing [*].                                          *)
(***************************************************************************)
IdentChars ==
    Chars("abcdefghijklmnopqrstuvwxyzABCDEFGHIJKLMNOPQRSTUVWXYZ0123456789_")

\* validate_name(name): True when it returns, False when it raises
validate_name(name) ==
    /\ name # ""
    /\ \A i \in 1..Len(name) : SubSeq(name, i, i) \in IdentChars

\* Whether s is identifiers with single dots between them
IsDotted(s) ==
    /\ s # ""
    /\ \A i \in 1..Len(s) : SubSeq(s, i, i) \in IdentChars \cup {"."}
    /\ Head(s) # "."
    /\ SubSeq(s, Len(s), Len(s)) # "."
    /\ \A i \in 1..(Len(s) - 1) : SubSeq(s, i, i + 1) # ".."

\* validate_path(path): True when it returns, False when it raises
validate_path(path) ==
    IF endswith_star(path) THEN IsDotted(strip_star(path)) ELSE IsDotted(path)

\* _validate_column_name: True when it returns, False when validate_path raises
_validate_column_name(name) == name = "*" \/ validate_path(name)

\* _validate_column for a plain-string column specifier
_validate_column(col) == _validate_column_name(col)

ValidationError == "InvalidName"

(***************************************************************************)
(* Text                                                                    *)
(***************************************************************************)
RECURSIVE Flatten(_)
Flatten(ps) == IF ps = <<>> THEN "" ELSE Head(ps) \o Flatten(Tail(ps))

RECURSIVE Concat(_)
Concat(ss) == IF ss = <<>> THEN <<>> ELSE Head(ss) \o Concat(Tail(ss))

\* sep.join(items), each item a sequence of pieces
RECURSIVE join(_, _)
join(sep, items) ==
    IF items = <<>> THEN <<>>
    ELSE IF Len(items) = 1 THEN Head(items)
    ELSE Head(items) \o <<sep>> \o join(sep, Tail(items))

_quote(s) == IF s = "*" THEN <<"*">> ELSE <<"\"", s, "\"">>

\* Column.__str__
Column_str(c) ==
    LET base == IF Truthy(c.table)
                THEN <<"\"", str(c.table), "\".">> \o _quote(c.name)
                ELSE _quote(c.name)
    IN  IF Truthy(c.alias)
        THEN base \o <<" AS \"", str(c.alias), "\"">>
        ELSE base

\* Column.__init__
Column(name, table, alias) ==
    IF ~_validate_column_name(name) THEN Raise(ValidationError)
    ELSE IF Truthy(table) /\ ~validate_name(table.v) THEN Raise(ValidationError)
    ELSE IF Truthy(alias) /\ ~validate_path(alias.v) THEN Raise(ValidationError)
    ELSE Ok([t |-> "Column", name |-> name, table |-> table, alias |-> alias])

(***************************************************************************)
(* Predicate                                                               *)
(***************************************************************************)
IsNullStr(rhs) == rhs.t = "str" /\ rhs.v \in {"null", "NULL"}

Predicate_values(rhs) ==
    CASE IsNullStr(rhs) -> <<>>
      [] rhs.t \in {"list", "tuple"} -> rhs.v
      [] rhs.t = "Column" -> <<>>
      [] OTHER -> <<rhs>>

\* Predicate.__init__ after the operator check and the None -> 'NULL' step
Predicate_store(lhs, op, rhs) ==
    IF ~validate_path(lhs) THEN Raise(ValidationError)
    ELSE IF IsNullStr(rhs) /\ op \notin {"=", "!=", "<>", "IS", "IS NOT"}
         THEN Raise("InvalidComparisonOperator")
    ELSE Ok([lhs |-> lhs, op |-> op, rhs |-> rhs,
             values |-> Predicate_values(rhs)])

Predicate(lhs, op, rhs0) ==
    IF op \notin COMP_OPS THEN Raise("InvalidComparisonOperator")
    ELSE LET rhs == IF rhs0.t = "None" THEN PyStr("NULL") ELSE rhs0
         IN  IF endswith_star(lhs)
             THEN IF rhs.t # "str" THEN Raise("AttributeError")
                  ELSE IF lower(rhs.v) # "null"
                       THEN Predicate_store(
                                strip_star(lhs),
                                CASE op = "=" -> "LIKE"
                                  [] op = "!=" -> "NOT LIKE"
                                  [] OTHER -> op,
                                PyStr("%" \o rhs.v \o "%"))
                       ELSE Predicate_store(strip_star(lhs), op, rhs)
             ELSE Predicate_store(lhs, op, rhs)

\* Predicate.render
Predicate_render(p, placeholder) ==
    IF IsNullStr(p.rhs)
    THEN IF p.op \in {"!=", "<>"}
         THEN [err |-> "none",
               text |-> <<"(">> \o _quote(p.lhs) \o <<" IS NOT NULL)">>]
         ELSE IF p.op = "="
              THEN [err |-> "none",
                    text |-> <<"(">> \o _quote(p.lhs) \o <<" IS NULL)">>]
              ELSE Raise("InvalidComparisonOperator")
    ELSE IF p.rhs.t = "Column"
         THEN [err |-> "none",
               text |-> <<"(">> \o _quote(p.lhs) \o <<" ", p.op, " ">>
                        \o Column_str(p.rhs) \o <<")">>]
    ELSE IF p.op = "IN"
         THEN IF p.rhs.t \in {"int", "bool"} THEN Raise("TypeError")
              ELSE LET n == IF p.rhs.t = "str" THEN str_len(p.rhs.v)
                                                   ELSE Len(p.rhs.v)
                   IN  [err |-> "none",
                        text |-> <<"(">> \o _quote(p.lhs) \o <<" ", p.op, " (">>
                                 \o join(", ", [i \in 1..n |-> <<placeholder>>])
                                 \o <<"))">>]
    ELSE [err |-> "none",
          text |-> <<"(">> \o _quote(p.lhs) \o <<" ", p.op, " ", placeholder, ")">>]

\* the render of each predicate of a list, in order; the first error wins
RECURSIVE render_preds(_, _)
render_preds(preds, placeholder) ==
    IF preds = <<>> THEN [err |-> "none", texts |-> <<>>]
    ELSE LET r == Predicate_render(Head(preds), placeholder)
         IN  IF r.err # "none" THEN Raise(r.err)
             ELSE LET rest == render_preds(Tail(preds), placeholder)
                  IN  IF rest.err # "none" THEN Raise(rest.err)
                      ELSE [err |-> "none", texts |-> <<r.text>> \o rest.texts]

preds_values(preds) == Concat([i \in 1..Len(preds) |-> preds[i].values])

\* Builds the Predicate objects of a list of (lhs, op, rhs) triples; the first
\* constructor that raises ends the construction
RECURSIVE make_preds(_)
make_preds(triples) ==
    IF triples = <<>> THEN Ok(<<>>)
    ELSE LET p == Predicate(Head(triples)[1], Head(triples)[2], Head(triples)[3])
         IN  IF p.err # "none" THEN Raise(p.err)
             ELSE LET rest == make_preds(Tail(triples))
                  IN  IF rest.err # "none" THEN Raise(rest.err)
                      ELSE Ok(<<p.obj>> \o rest.obj)

(***************************************************************************)
(* Filter                                                                  *)
(***************************************************************************)
Filter(preds, op) ==
    Ok([kind |-> "Filter", preds |-> preds, op |-> op,
        values |-> preds_values(preds)])

Filter_render(f, placeholder) ==
    LET r == render_preds(f.preds, placeholder)
    IN  IF r.err # "none" THEN Raise(r.err)
        ELSE LET result == join(f.op, r.texts)
             IN  [err |-> "none",
                  text |-> IF f.op = FilterOR
                           THEN <<"(">> \o result \o <<")">>
                           ELSE result]

(***************************************************************************)
(* Order: an entry of cols is a tuple (path, direction), a str (a path) or   *)
(* a value of another type, which the constructor passes over              *)
(***************************************************************************)
RECURSIVE Order_cols(_)
Order_cols(cols) ==
    IF cols = <<>> THEN Ok(<<>>)
    ELSE LET col == Head(cols)
         IN  IF col.t \notin {"tuple", "str"} THEN Order_cols(Tail(cols))
             ELSE LET path == IF col.t = "tuple" THEN col.v[1] ELSE col.v
                      item == IF col.t = "tuple" THEN col.v
                              ELSE <<col.v, OrderASC>>
                  IN  IF ~validate_path(path) THEN Raise(ValidationError)
                      ELSE LET rest == Order_cols(Tail(cols))
                           IN  IF rest.err # "none" THEN Raise(rest.err)
                               ELSE Ok(<<item>> \o rest.obj)

Order(cols) ==
    LET r == Order_cols(cols)
    IN  IF r.err # "none" THEN Raise(r.err)
        ELSE Ok([kind |-> "Order", cols |-> r.obj])

Order_render(o) ==
    join(", ", [i \in 1..Len(o.cols) |->
                   <<"\"", o.cols[i][1], "\" ", o.cols[i][2]>>])

(***************************************************************************)
(* Projection, Table, Group.  Column specifiers are plain strings; Column   *)
(* objects appear as right-hand values of predicates.                       *)
(***************************************************************************)
all_valid_columns(cols) == \A i \in 1..Len(cols) : _validate_column(cols[i])

quoted_list(cols) == join(", ", [i \in 1..Len(cols) |-> _quote(cols[i])])

Projection(cols) ==
    IF ~all_valid_columns(cols) THEN Raise(ValidationError)
    ELSE Ok([kind |-> "Projection", cols |-> cols])

Projection_render(p) == quoted_list(p.cols)

Table(name) ==
    IF ~validate_name(name) THEN Raise(ValidationError)
    ELSE Ok([kind |-> "Table", name |-> name])

Table_render(t) == t.name

Group(cols) ==
    IF ~all_valid_columns(cols) THEN Raise(ValidationError)
    ELSE Ok([kind |-> "Group", cols |-> cols])

Group_render(g) == quoted_list(g.cols)

(***************************************************************************)
(* Aggregation: an entry of aggs is a tuple (func, col) or (func, col,       *)
(* alias).  The loop variables func, col, alias keep their values from one  *)
(* entry to the next: bound is <<>> before the first assignment and         *)
(* <<func, col, alias>> after it.                                           *)
(***************************************************************************)
RECURSIVE Aggregation_loop(_, _)
Aggregation_loop(aggs, bound) ==
    IF aggs = <<>> THEN Ok(<<>>)
    ELSE LET agg == Head(aggs)
         IN  IF agg.t # "tuple" THEN Raise("TypeError")
             ELSE LET now == CASE Len(agg.v) = 3 -> agg.v
                               [] Len(agg.v) = 2 -> <<agg.v[1], agg.v[2], None>>
                               [] OTHER -> bound
                  IN  IF now = <<>> THEN Raise("UnboundLocalError")
                      ELSE IF upper(now[1]) \notin AGG_FUNCS
                           THEN Raise("InvalidAggregateFunction")
                      ELSE IF now[2] # None /\ now[2] # PyStr("*")
                              /\ ~_validate_column(now[2].v)
                           THEN Raise(ValidationError)
                      ELSE LET rest == Aggregation_loop(Tail(aggs), now)
                           IN  IF rest.err # "none" THEN Raise(rest.err)
                               ELSE Ok(<<now>> \o rest.obj)

Aggregation_aggs(aggs) == Aggregation_loop(aggs, <<>>)

Aggregation(aggs) ==
    LET r == Aggregation_aggs(aggs)
    IN  IF r.err # "none" THEN Raise(r.err)
        ELSE Ok([kind |-> "Aggregation", aggs |-> r.obj, group_cols |-> <<>>])

agg_expr(agg) ==
    LET nunique == upper(agg[1]) = "NUNIQUE"
        func == IF nunique THEN "COUNT" ELSE agg[1]
        mod == IF nunique THEN "DISTINCT " ELSE ""
        col == IF ~Truthy(agg[2]) THEN "*" ELSE agg[2].v
        alias == IF ~Truthy(agg[3]) THEN lower(func) ELSE agg[3].v
        expr == IF col = "*"
                THEN <<func, "(", mod, col, ")">>
                ELSE <<func, "(", mod, "\"", col, "\")">>
    IN  expr \o <<" AS \"", alias, "\"">>

\* mutant: the inherited grouping columns are left out of the select list
Aggregation_render_no_group_cols(a) ==
    join(", ", [i \in 1..Len(a.aggs) |-> agg_expr(a.aggs[i])])

Aggregation_render(a) ==
    join(", ", [i \in 1..Len(a.group_cols) |-> _quote(a.group_cols[i])]
               \o [i \in 1..Len(a.aggs) |-> agg_expr(a.aggs[i])])

(***************************************************************************)
(* Offset, Limit, Count, Unique, CountUnique                               *)
(***************************************************************************)
Digits == "0123456789"

\* The characters int() skips around a literal: U+0009 to U+000D, the space,
\* U+0085 and U+00A0
Whitespace == Chars(" \t\n\r\f ")

\* str.strip
RECURSIVE lstrip(_)
lstrip(s) ==
    IF s # "" /\ Head(s) \in Whitespace THEN lstrip(Tail(s)) ELSE s

RECURSIVE rstrip(_)
rstrip(s) ==
    IF s # "" /\ SubSeq(s, Len(s), Len(s)) \in Whitespace
    THEN rstrip(SubSeq(s, 1, Len(s) - 1))
    ELSE s

strip(s) == lstrip(rstrip(s))

IsDigit(c) == \E i \in 1..Len(Digits) : SubSeq(Digits, i, i) = c

DigitValue(c) == (CHOOSE i \in 1..Len(Digits) : SubSeq(Digits, i, i) = c) - 1

\* Whether s is a decimal literal without sign: digits, single underscores
\* between them
RECURSIVE IsDecimal(_, _)
IsDecimal(s, after_digit) ==
    IF s = "" THEN after_digit
    ELSE IF IsDigit(Head(s)) THEN IsDecimal(Tail(s), TRUE)
    ELSE Head(s) = "_" /\ after_digit /\ Tail(s) # ""
         /\ IsDigit(Head(Tail(s))) /\ IsDecimal(Tail(s), FALSE)

RECURSIVE DecimalValue(_, _)
DecimalValue(s, acc) ==
    IF s = "" THEN acc
    ELSE IF Head(s) = "_" THEN DecimalValue(Tail(s), acc)
    ELSE DecimalValue(Tail(s), 10 * acc + DigitValue(Head(s)))

\* int(x) for an int, a bool, a str (base 10), and the types int rejects
int(x) ==
    CASE x.t = "int" -> Ok(x.v)
      [] x.t = "bool" -> Ok(IF x.v THEN 1 ELSE 0)
      [] x.t = "str" ->
             LET body == strip(x.v)
                 signed == body # "" /\ Head(body) \in {"+", "-"}
                 digits == IF signed THEN Tail(body) ELSE body
             IN  IF ~IsDecimal(digits, FALSE) THEN Raise("ValueError")
                 ELSE IF signed /\ Head(body) = "-"
                      THEN Ok(0 - DecimalValue(digits, 0))
                      ELSE Ok(DecimalValue(digits, 0))
      [] OTHER -> Raise("TypeError")

Offset(num) ==
    IF int(num).err # "none" THEN Raise(int(num).err)
    ELSE Ok([kind |-> "Offset", num |-> int(num).obj])

Offset_render(o) == ToString(o.num)

Limit(num) ==
    IF int(num).err # "none" THEN Raise(int(num).err)
    ELSE Ok([kind |-> "Limit", num |-> int(num).obj])

Limit_render(l) == ToString(l.num)

Count == Ok([kind |-> "Count"])

Count_render == <<"COUNT(*) AS \"count\"">>

Unique == Ok([kind |-> "Unique"])

\* cols is <<>> for both None and the empty list: the source only tests its truth
CountUnique(cols) ==
    IF ~all_valid_columns(cols) THEN Raise(ValidationError)
    ELSE Ok([kind |-> "CountUnique", cols |-> cols])

CountUnique_render(c) ==
    IF c.cols # <<>>
    THEN <<"COUNT(DISTINCT ">>
         \o join(", ", [i \in 1..Len(c.cols) |-> <<"\"", c.cols[i], "\"">>])
         \o <<") AS \"count\"">>
    ELSE <<"COUNT(*) AS \"count\"">>

(***************************************************************************)
(* Join.  preds is PyNone or a PyList of Predicate objects.                 *)
(***************************************************************************)
Join(name, left_col, op, right_col, preds, how, alias, lhs) ==
    IF ~validate_name(name) THEN Raise(ValidationError)
    ELSE IF Truthy(left_col) /\ Truthy(op) /\ Truthy(right_col)
            /\ ~(_validate_column(left_col.v) /\ _validate_column(right_col.v))
         THEN Raise(ValidationError)
    ELSE IF Truthy(alias) /\ ~validate_name(alias.v) THEN Raise(ValidationError)
    ELSE IF Truthy(lhs) /\ ~validate_name(name) THEN Raise(ValidationError)
    ELSE IF upper(how) \notin JOIN_TYPES THEN Raise("InvalidJoinOperator")
    ELSE Ok([kind |-> "Join", prev_name |-> lhs, name |-> name,
             left_col |-> left_col, op |-> op, right_col |-> right_col,
             how |-> how, alias |-> alias,
             values |-> IF preds.t = "list" THEN preds_values(preds.v) ELSE <<>>,
             preds |-> preds])

\* Join.__eq__
Join_eq(self, rhs) ==
    /\ self.prev_name = rhs.prev_name
    /\ self.name = rhs.name
    /\ self.left_col = rhs.left_col
    /\ self.op = rhs.op
    /\ self.right_col = rhs.right_col
    /\ self.how = rhs.how
    /\ self.alias = rhs.alias

Join_render(j, placeholder) ==
    LET target == IF Truthy(j.alias)
                  THEN <<"\"", j.name, "\"", " AS \"", str(j.alias), "\"">>
                  ELSE <<"\"", j.name, "\"">>
        table == IF Truthy(j.alias) THEN <<"\"", str(j.alias), "\"">>
                 ELSE <<"\"", j.name, "\"">>
        head == <<upper(j.how), " JOIN ">> \o target \o <<" ON ">>
    IN  IF Truthy(j.left_col)
        THEN [err |-> "none",
              text |-> head \o <<"\"", str(j.prev_name), "\".\"",
                                 str(j.left_col), "\"", " ", str(j.op), " ">>
                       \o table \o <<".\"", str(j.right_col), "\"">>]
        ELSE IF j.preds.t = "None" THEN Raise("TypeError")
        ELSE LET r == render_preds(j.preds.v, placeholder)
             IN  IF r.err # "none" THEN Raise(r.err)
                 ELSE [err |-> "none", text |-> head \o join(" AND ", r.texts)]

(***************************************************************************)
(* Query.append.  The result is the error raised ("none" when append        *)
(* returns), the stage sequence and the table stack after the call, and the *)
(* caller's stage object after the call (append writes into it).            *)
(***************************************************************************)
last_stage(stgs) == IF stgs # <<>> THEN stgs[Len(stgs)] ELSE [kind |-> "None"]

pop(stgs) == SubSeq(stgs, 1, Len(stgs) - 1)

Appended(stgs, tbls, stored, stage) ==
    [err |-> "none", stages |-> Append(stgs, stored), tables |-> tbls,
     stage |-> stage]

Rejected(e, stgs, tbls, stage) ==
    [err |-> e, stages |-> stgs, tables |-> tbls, stage |-> stage]

\* mutant: only the last stage is examined
has_projection_last_only(stgs) ==
    stgs # <<>> /\ stgs[Len(stgs)].kind = "Projection"

\* for prev in self.stages: if isinstance(prev, Projection)
has_projection(stgs) == \E i \in 1..Len(stgs) : stgs[i].kind = "Projection"

\* mutant: the Projection check is missing
append_Aggregation_unchecked(stgs, tbls, stage) ==
    LET st == IF stgs # <<>> /\ last_stage(stgs).kind = "Group"
              THEN [stage EXCEPT !.group_cols = last_stage(stgs).cols]
              ELSE stage
    IN  Appended(stgs, tbls, st, st)

\* An append that copies the grouping columns before it looks for a Projection
append_Aggregation_copies_first(stgs, tbls, stage) ==
    LET st == IF stgs # <<>> /\ last_stage(stgs).kind = "Group"
              THEN [stage EXCEPT !.group_cols = last_stage(stgs).cols]
              ELSE stage
    IN  IF has_projection(stgs)
        THEN Rejected("InvalidQuery", stgs, tbls, st)
        ELSE Appended(stgs, tbls, st, st)

append_Aggregation(stgs, tbls, stage) ==
    IF has_projection(stgs)
    THEN Rejected("InvalidQuery", stgs, tbls, stage)
    ELSE LET st == IF stgs # <<>> /\ last_stage(stgs).kind = "Group"
                   THEN [stage EXCEPT !.group_cols = last_stage(stgs).cols]
                   ELSE stage
         IN  Appended(stgs, tbls, st, st)

append_Join(stgs, tbls, stage) ==
    LET lst == last_stage(stgs)
    IN  IF lst.kind = "Join" /\ Join_eq(lst, stage)
        THEN [err |-> "none", stages |-> stgs, tables |-> tbls, stage |-> stage]
        ELSE IF lst.kind \in {"Table", "Join"}
             THEN LET st == IF ~Truthy(stage.prev_name)
                            THEN [stage EXCEPT !.prev_name = PyStr(lst.name)]
                            ELSE stage
                  IN  Appended(stgs, tbls, st, st)
             ELSE Rejected("InvalidQuery", stgs, tbls, stage)

\* mutant: the Projection's columns are taken but the Projection stays
append_Count_keeps_projection(stgs, tbls, stage) ==
    IF last_stage(stgs).kind = "Unique"
    THEN LET s1 == pop(stgs)
             folds == s1 # <<>> /\ last_stage(s1).kind = "Projection"
             cols == IF folds THEN last_stage(s1).cols ELSE <<>>
         IN  Appended(s1, tbls, CountUnique(cols).obj, stage)
    ELSE Appended(stgs, tbls, stage, stage)

\* An append that stores a Count as it is, whatever the last stage
append_Count_unfolded(stgs, tbls, stage) ==
    Appended(stgs, tbls, stage, stage)

append_Count(stgs, tbls, stage) ==
    IF last_stage(stgs).kind = "Unique"
    THEN LET s1 == pop(stgs)
             folds == s1 # <<>> /\ last_stage(s1).kind = "Projection"
             s2 == IF folds THEN pop(s1) ELSE s1
             cols == IF folds THEN last_stage(s1).cols ELSE <<>>
         IN  Appended(s2, tbls, CountUnique(cols).obj, stage)
    ELSE Appended(stgs, tbls, stage, stage)

\* mutant: the fold also fires when the Projection is the stage before the last
append_CountUnique_deep(stgs, tbls, stage) ==
    IF last_stage(stgs).kind = "Projection"
    THEN LET st == [stage EXCEPT !.cols = last_stage(stgs).cols]
         IN  Appended(pop(stgs), tbls, st, st)
    ELSE IF Len(stgs) >= 2 /\ stgs[Len(stgs) - 1].kind = "Projection"
         THEN LET st == [stage EXCEPT !.cols = stgs[Len(stgs) - 1].cols]
              IN  Appended(pop(pop(stgs)), tbls, st, st)
    ELSE Appended(stgs, tbls, stage, stage)

append_CountUnique(stgs, tbls, stage) ==
    IF last_stage(stgs).kind = "Projection"
    THEN LET st == [stage EXCEPT !.cols = last_stage(stgs).cols]
         IN  Appended(pop(stgs), tbls, st, st)
    ELSE Appended(stgs, tbls, stage, stage)

\* mutant: the table name is not pushed
append_Table_no_push(stgs, tbls, stage) == Appended(stgs, tbls, stage, stage)

append_Table(stgs, tbls, stage) ==
    Appended(stgs, Append(tbls, stage.name), stage, stage)

append(stgs, tbls, stage) ==
    CASE stage.kind = "Aggregation" -> append_Aggregation(stgs, tbls, stage)
      [] stage.kind = "Join" -> append_Join(stgs, tbls, stage)
      [] stage.kind = "Count" -> append_Count(stgs, tbls, stage)
      [] stage.kind = "CountUnique" -> append_CountUnique(stgs, tbls, stage)
      [] stage.kind = "Table" -> append_Table(stgs, tbls, stage)
      [] OTHER -> Appended(stgs, tbls, stage, stage)

(***************************************************************************)
(* Query.render                                                            *)
(***************************************************************************)
\* stage.render(placeholder)
stage_render(stage, placeholder) ==
    CASE stage.kind = "Filter" -> Filter_render(stage, placeholder)
      [] stage.kind = "Join" -> Join_render(stage, placeholder)
      [] stage.kind = "Table" -> [err |-> "none", text |-> <<Table_render(stage)>>]
      [] stage.kind = "Projection" ->
             [err |-> "none", text |-> Projection_render(stage)]
      [] stage.kind = "Group" -> [err |-> "none", text |-> Group_render(stage)]
      [] stage.kind = "Aggregation" ->
             [err |-> "none", text |-> Aggregation_render(stage)]
      [] stage.kind = "Order" -> [err |-> "none", text |-> Order_render(stage)]
      [] stage.kind = "Limit" -> [err |-> "none", text |-> <<Limit_render(stage)>>]
      [] stage.kind = "Offset" ->
             [err |-> "none", text |-> <<Offset_render(stage)>>]
      [] stage.kind = "Count" -> [err |-> "none", text |-> Count_render]
      [] stage.kind = "Unique" -> [err |-> "none", text |-> <<"SELECT DISTINCT *">>]
      [] stage.kind = "CountUnique" ->
             [err |-> "none", text |-> CountUnique_render(stage)]

\* query.startswith('SELECT ')
startswith_SELECT_(query) ==
    Len(query) >= 2 /\ query[1] = "SELECT" /\ query[2] = " "

\* query.startswith('SELECT')
startswith_SELECT(query) == Len(query) >= 1 /\ query[1] = "SELECT"

select_prefix(text, query) == <<"SELECT", " ">> \o text \o <<" ">> \o query

\* if isinstance(prev, Aggregation) ... elif isinstance(prev, Filter) ... else
filter_keyword(prev) ==
    CASE prev = "Aggregation" -> "HAVING"
      [] prev = "Filter" -> "AND"
      [] OTHER -> "WHERE"

\* A loop body that selects a CountUnique without columns from the rows as
\* they are, not from their DISTINCT subquery
render_step_plain_count(acc, stage, text) ==
    LET query == acc.query
        k == stage.kind
        q == CASE k = "Table" -> <<"FROM \"">> \o text \o <<"\"">>
               [] k = "Projection" -> select_prefix(text, query)
               [] k = "Filter" ->
                      query \o <<" ", filter_keyword(acc.prev), " ">> \o text
               [] k = "Group" -> query \o <<" GROUP BY ">> \o text
               [] k = "Aggregation" -> select_prefix(text, query)
               [] k = "Order" -> query \o <<" ORDER BY ">> \o text
               [] k = "Limit" -> query \o <<" LIMIT ">> \o text
               [] k = "Offset" -> query \o <<" OFFSET ">> \o text
               [] k = "Count" ->
                      IF acc.prev = "Unique"
                      THEN <<"SELECT", " ">> \o text \o <<" FROM (">> \o query
                           \o <<") AS tmp">>
                      ELSE select_prefix(text, query)
               [] k = "Unique" ->
                      IF startswith_SELECT_(query)
                      THEN <<"SELECT", " ", "DISTINCT ">>
                           \o SubSeq(query, 3, Len(query))
                      ELSE <<"SELECT", " ", "DISTINCT * ">> \o query
               [] k = "Join" -> query \o <<" ">> \o text
               [] k = "CountUnique" -> select_prefix(text, query)
        v == IF k \in {"Filter", "Join"} THEN acc.values \o stage.values
             ELSE acc.values
    IN  [query |-> q, values |-> v, prev |-> k]

\* One iteration of the loop body after stage.render returned text.
\* acc is [query, values, prev], prev the kind of the previous stage.
render_step(acc, stage, text) ==
    LET query == acc.query
        k == stage.kind
        q == CASE k = "Table" -> <<"FROM \"">> \o text \o <<"\"">>
               [] k = "Projection" -> select_prefix(text, query)
               [] k = "Filter" ->
                      query \o <<" ", filter_keyword(acc.prev), " ">> \o text
               [] k = "Group" -> query \o <<" GROUP BY ">> \o text
               [] k = "Aggregation" -> select_prefix(text, query)
               [] k = "Order" -> query \o <<" ORDER BY ">> \o text
               [] k = "Limit" -> query \o <<" LIMIT ">> \o text
               [] k = "Offset" -> query \o <<" OFFSET ">> \o text
               [] k = "Count" ->
                      IF acc.prev = "Unique"
                      THEN <<"SELECT", " ">> \o text \o <<" FROM (">> \o query
                           \o <<") AS tmp">>
                      ELSE select_prefix(text, query)
               [] k = "Unique" ->
                      IF startswith_SELECT_(query)
                      THEN <<"SELECT", " ", "DISTINCT ">>
                           \o SubSeq(query, 3, Len(query))
                      ELSE <<"SELECT", " ", "DISTINCT * ">> \o query
               [] k = "Join" -> query \o <<" ">> \o text
               [] k = "CountUnique" ->
                      IF stage.cols # <<>>
                      THEN select_prefix(text, query)
                      ELSE <<"SELECT", " ">> \o text
                           \o <<" FROM (SELECT DISTINCT * ">> \o query
                           \o <<") AS tmp">>
        v == IF k \in {"Filter", "Join"} THEN acc.values \o stage.values
             ELSE acc.values
    IN  [query |-> q, values |-> v, prev |-> k]

RECURSIVE render_loop(_, _, _, _)
render_loop(acc, stgs, i, placeholder) ==
    IF i > Len(stgs) THEN [err |-> "none", acc |-> acc]
    ELSE LET r == stage_render(stgs[i], placeholder)
         IN  IF r.err # "none" THEN Raise(r.err)
             ELSE render_loop(render_step(acc, stgs[i], r.text), stgs, i + 1,
                              placeholder)

render(stgs, tbls, placeholder) ==
    IF tbls = <<>> THEN [err |-> "InvalidQuery", msg |-> "no table"]
    ELSE LET r == render_loop([query |-> <<>>, values |-> <<>>, prev |-> "None"],
                              stgs, 1, placeholder)
         IN  IF r.err # "none" THEN [err |-> r.err, msg |-> ""]
             ELSE [err |-> "none",
                   query |-> IF ~startswith_SELECT(r.acc.query)
                             THEN <<"SELECT", " ", "* ">> \o r.acc.query
                             ELSE r.acc.query,
                   values |-> r.acc.values]

(***************************************************************************)
(* Clause construction from constructor arguments                          *)
(***************************************************************************)
Construct(a) ==
    CASE a.kind = "Table" -> Table(a.name)
      [] a.kind = "Projection" -> Projection(a.cols)
      [] a.kind = "Filter" ->
             LET ps == make_preds(a.preds)
             IN  IF ps.err # "none" THEN Raise(ps.err) ELSE Filter(ps.obj, a.op)
      [] a.kind = "Group" -> Group(a.cols)
      [] a.kind = "Aggregation" -> Aggregation(a.aggs)
      [] a.kind = "Order" -> Order(a.cols)
      [] a.kind = "Limit" -> Limit(a.num)
      [] a.kind = "Offset" -> Offset(a.num)
      [] a.kind = "Count" -> Count
      [] a.kind = "Unique" -> Unique
      [] a.kind = "CountUnique" -> CountUnique(a.cols)
      [] a.kind = "Join" ->
             IF a.preds.t = "None"
             THEN Join(a.name, a.left_col, a.op, a.right_col, PyNone, a.how,
                       a.alias, a.lhs)
             ELSE LET ps == make_preds(a.preds.v)
                  IN  IF ps.err # "none" THEN Raise(ps.err)
                      ELSE Join(a.name, a.left_col, a.op, a.right_col,
                                PyList(ps.obj), a.how, a.alias, a.lhs)

(***************************************************************************)
(* Inputs                                                                  *)
(***************************************************************************)
MaxStages == 3

Placeholders == {"?", "%s"}

TableArg(name) == [kind |-> "Table", name |-> name]

ProjectionArg(cols) == [kind |-> "Projection", cols |-> cols]

FilterArg(preds, op) == [kind |-> "Filter", preds |-> preds, op |-> op]

GroupArg(cols) == [kind |-> "Group", cols |-> cols]

AggregationArg(aggs) == [kind |-> "Aggregation", aggs |-> aggs]

OrderArg(cols) == [kind |-> "Order", cols |-> cols]

LimitArg(num) == [kind |-> "Limit", num |-> num]

OffsetArg(num) == [kind |-> "Offset", num |-> num]

CountArg == [kind |-> "Count"]

UniqueArg == [kind |-> "Unique"]

CountUniqueArg(cols) == [kind |-> "CountUnique", cols |-> cols]

\* The join condition x = y
OnX == PyStr("x")

OnEq == PyStr("=")

OnY == PyStr("y")

JoinArg(name, left_col, op, right_col, preds, how, alias, lhs) ==
    [kind |-> "Join", name |-> name, left_col |-> left_col, op |-> op,
     right_col |-> right_col, preds |-> preds, how |-> how, alias |-> alias,
     lhs |-> lhs]

\* Join('b', 'x', '=', 'y'): the left-hand table is left to the Query
JoinCtx == JoinArg("b", OnX, OnEq, OnY, PyNone, "INNER", None, None)

\* Join('b', 'x', '=', 'y', lhs='events')
JoinLhs ==
    JoinArg("b", OnX, OnEq, OnY, PyNone, "INNER", None, PyStr("events"))

\* Join('c', preds=[Predicate('id', '=', 7)])
JoinPreds ==
    JoinArg("c", None, None, None, PyList(<< <<"id", "=", PyInt(7)>> >>),
            "INNER", None, None)

FilterAge == FilterArg(<< <<"age", ">", PyInt(30)>> >>, FilterAND)

\* Filter([Predicate('x', 'IS', None)])
FilterIsNull == FilterArg(<< <<"x", "IS", PyNone>> >>, FilterAND)

\* Filter([Predicate('x', '=', [1, 2])])
FilterEqList ==
    FilterArg(<< <<"x", "=", PyList(<<PyInt(1), PyInt(2)>>)>> >>, FilterAND)

\* Filter([Predicate('age', '<', None)]): the Predicate constructor raises
FilterLtNull == FilterArg(<< <<"age", "<", PyNone>> >>, FilterAND)

\* Filter([Predicate('x', 'IN', [1, 2])])
FilterIn ==
    FilterArg(<< <<"x", "IN", PyList(<<PyInt(1), PyInt(2)>>)>> >>, FilterAND)

\* Filter([Predicate('x', '=', None), Predicate('labels[*]', '=', 'e')], Filter.OR)
FilterOrNull ==
    FilterArg(<< <<"x", "=", PyNone>>, <<"labels[*]", "=", PyStr("e")>> >>,
              FilterOR)

\* Filter([Predicate('x', '=', Column('y', table='b'))])
FilterColumn ==
    FilterArg(<< <<"x", "=", Column("y", PyStr("b"), None).obj>> >>, FilterAND)

\* Join('c', 'x', '=', 'y', preds=[Predicate('id', '=', 7)]): both forms at once
JoinBoth ==
    JoinArg("c", OnX, OnEq, OnY, PyList(<< <<"id", "=", PyInt(7)>> >>),
            "INNER", None, None)

\* Join('c', preds=[Predicate('id', '=', 7)], lhs='events')
JoinPredsId ==
    JoinArg("c", None, None, None, PyList(<< <<"id", "=", PyInt(7)>> >>),
            "INNER", None, PyStr("events"))

\* Join('c', preds=[Predicate('x', '=', 1)], lhs='events')
JoinPredsX ==
    JoinArg("c", None, None, None, PyList(<< <<"x", "=", PyInt(1)>> >>),
            "INNER", None, PyStr("events"))

\* Filter([Predicate('x', 'IN', (1, 2))])
FilterInTuple ==
    FilterArg(<< <<"x", "IN", PyTuple(<<PyInt(1), PyInt(2)>>)>> >>, FilterAND)

\* Join('b', 'x', '=', 'y', how='croß', alias='None')
JoinCross == JoinArg("b", OnX, OnEq, OnY, PyNone, "croß", PyStr("None"), None)

\* The stages of the structural specification: every stage kind
StageArgs ==
    {TableArg("events"),
     ProjectionArg(<<"a", "b">>), ProjectionArg(<<"type">>),
     GroupArg(<<"type">>),
     AggregationArg(<<PyTuple(<<"COUNT", PyStr("*"), PyStr("n")>>)>>),
     FilterAge, FilterLtNull,
     OrderArg(<<[t |-> "str", v |-> "type"]>>),
     LimitArg(PyInt(5)), OffsetArg(PyInt(2)),
     CountArg, UniqueArg, CountUniqueArg(<<>>),
     JoinCtx, JoinLhs}

\* The stages of the value specification: the shapes a right-hand value and a
\* join condition can take
ValueArgs ==
    {TableArg("events"), ProjectionArg(<<"type">>), UniqueArg, CountArg,
     FilterAge, FilterIsNull, FilterEqList, FilterLtNull, FilterIn,
     FilterOrNull, FilterColumn,
     JoinCtx, JoinPreds, JoinBoth, JoinPredsId, JoinPredsX,
     FilterInTuple, LimitArg(PyStr(" 7 "))}

\* A string no validator and no allow-list accepts
Evil == "e\"; DROP TABLE t; --"

\* The stages of the injection specification: Evil in each position that render
\* writes into the text as syntax
InjArgs ==
    {TableArg("events"), TableArg(Evil),
     ProjectionArg(<<Evil>>), GroupArg(<<Evil>>), CountUniqueArg(<<Evil>>),
     FilterAge,
     FilterArg(<< <<Evil, "=", PyInt(1)>> >>, FilterAND),
     FilterArg(<< <<"age", Evil, PyInt(1)>> >>, FilterAND),
     FilterArg(<< <<"age", "=", PyStr(Evil)>> >>, FilterAND),
     FilterArg(<< <<"age", ">", PyInt(30)>>, <<"x", "=", PyInt(1)>> >>, Evil),
     OrderArg(<<[t |-> "tuple", v |-> <<Evil, "ASC">>]>>),
     OrderArg(<<[t |-> "tuple", v |-> <<"type", Evil>>]>>),
     AggregationArg(<<PyTuple(<<Evil, PyStr("*"), PyStr("n")>>)>>),
     AggregationArg(<<PyTuple(<<"COUNT", PyStr(Evil), PyStr("n")>>)>>),
     AggregationArg(<<PyTuple(<<"COUNT", PyStr("*"), PyStr(Evil)>>)>>),
     JoinCtx,
     JoinArg(Evil, OnX, OnEq, OnY, PyNone, "INNER", None, None),
     JoinArg("b", PyStr(Evil), OnEq, OnY, PyNone, "INNER", None, None),
     JoinArg("b", OnX, PyStr(Evil), OnY, PyNone, "INNER", None, None),
     JoinArg("b", OnX, OnEq, OnY, PyNone, Evil, None, None),
     JoinArg("b", OnX, OnEq, OnY, PyNone, "INNER", PyStr(Evil), None),
     JoinArg("b", OnX, OnEq, OnY, PyNone, "INNER", None, PyStr(Evil))}

\* The stages of the clause specification: Filters around the stages that can
\* stand between them, in sequences of up to MaxClauses stages
MaxClauses == 4

ClauseArgs ==
    {TableArg("events"), ProjectionArg(<<"type">>), GroupArg(<<"type">>),
     AggregationArg(<<PyTuple(<<"COUNT", PyStr("*"), PyStr("n")>>)>>),
     FilterAge, FilterIn, FilterLtNull, LimitArg(PyInt(5))}

\* Join('c', 'x', '=', 'y', lhs='b')
JoinLhsB == JoinArg("c", OnX, OnEq, OnY, PyNone, "INNER", None, PyStr("b"))

\* The stages of the join specification: a Table and Joins with and without a
\* left-hand table of their own
JoinsArgs ==
    {TableArg("events"), JoinCtx, JoinPreds, JoinLhsB, JoinCross, FilterLtNull}

\* Construct over the arguments of the specifications, computed once
Constructed ==
    {<<a, Construct(a)>> :
        a \in StageArgs \cup ValueArgs \cup InjArgs \cup ClauseArgs \cup JoinsArgs}

\* Construct(a)
ConstructOf(a) ==
    IF \E p \in Constructed : p[1] = a
    THEN (CHOOSE p \in Constructed : p[1] = a)[2]
    ELSE Construct(a)

(***************************************************************************)
(* The state machine: one Query object.  seen is the set of stage kinds     *)
(* that append has accepted so far; last records the last call and what it  *)
(* returned or raised.                                                      *)
(*                                                                         *)
(* append stores the object it is given and writes into it (group_cols,     *)
(* prev_name, cols), so an object that is appended again carries what was   *)
(* written, and a write shows at every position that holds the object.      *)
(* ident[i] is the first position at which the object of stages[i] was      *)
(* stored: two positions hold the same object when their ident is the same. *)
(* An object that append has changed is in the sequence: a stage that was   *)
(* rejected and a Join that was dropped are as constructed, and append pops *)
(* only Unique and Projection objects, which it never changes.  So          *)
(* appending an object again is either appending the object of a position   *)
(* (AppendAgain) or the same as appending an equal new one (AppendStage).   *)
(***************************************************************************)
\* The kinds of stage append writes into
WrittenKinds == {"Aggregation", "Join", "CountUnique"}

\* Query(): no stage, no table, nothing raised
NoStages == [stages |-> <<>>, tables |-> <<>>, seen |-> {}, ident |-> <<>>,
             err |-> "none"]

\* The Query q after self.append(given) of a newly constructed stage has
\* returned r, in the course of a call that appends several stages
appended_to(q, given, r) ==
    [stages |-> r.stages,
     tables |-> r.tables,
     seen |-> IF r.err = "none" THEN q.seen \cup {given.kind} ELSE q.seen,
     ident |-> IF r.err = "none" /\ r.stages # q.stages
               THEN Append(SubSeq(q.ident, 1, Len(r.stages) - 1), Len(r.stages))
               ELSE q.ident,
     err |-> r.err]

\* for stage in stgs: self.append(stage), from the i-th stage on: the first
\* append that raises ends the loop, and what was appended before it stays
RECURSIVE extend(_, _, _)
extend(q, stgs, i) ==
    IF i > Len(stgs) \/ q.err # "none" THEN q
    ELSE extend(appended_to(q, stgs[i], append(q.stages, q.tables, stgs[i])),
                stgs, i + 1)

\* Whether every constructor of a list of constructor arguments returns
all_constructed(args) == \A i \in 1..Len(args) : ConstructOf(args[i]).err = "none"

\* The stages that the constructors of a list of arguments return
constructed(args) == [i \in 1..Len(args) |-> ConstructOf(args[i]).obj]

\* Query(arg): the attributes of the new object, err when __init__ raises.
\* A str is the name of a Table to append, a list is stages to append, and
\* anything else is left alone.
Query(arg) ==
    CASE arg.t = "str" ->
             IF Table(arg.v).err # "none" THEN Raise(Table(arg.v).err)
             ELSE extend(NoStages, <<Table(arg.v).obj>>, 1)
      [] arg.t = "list" -> extend(NoStages, constructed(arg.v), 1)
      [] OTHER -> NoStages

\* The arguments of Query: none, a table name, and lists of stages, one of
\* which folds and one of which holds a stage that append rejects
QueryArgs ==
    {None, PyStr("events"),
     PyList(<<TableArg("events"), ProjectionArg(<<"type">>)>>),
     PyList(<<TableArg("events"), UniqueArg, CountArg>>),
     PyList(<<TableArg("events"), ProjectionArg(<<"type">>),
              AggregationArg(<<PyTuple(<<"COUNT", PyStr("*"), PyStr("n")>>)>>)>>)}

\* The Query is new and has the attributes of q
Constructs(arg, q) ==
    /\ q.err = "none"
    /\ stages = q.stages
    /\ tables = q.tables
    /\ seen = q.seen
    /\ last = [call |-> "init", arg |-> arg]
    /\ ident = q.ident

\* query = Query(arg), for the arguments with which __init__ returns
Init == \E arg \in QueryArgs : Constructs(arg, Query(arg))

\* A clause constructor raised c.err: the Query is not touched
Raised(a, c) ==
    /\ c.err # "none"
    /\ last' = [call |-> "construct", arg |-> a, err |-> c.err]
    /\ UNCHANGED <<stages, tables, seen, ident>>

ConstructFails(a) == Raised(a, ConstructOf(a))

\* Whether append, with result r, put an object at the end of the sequence: a
\* Join that is dropped and a stage that is rejected are not stored
stored_last(r) == r.err = "none" /\ r.stages # stages

\* The state after query.append(given) has returned r.  again says that given
\* is an object already stored, id which one: what the call wrote into it
\* shows at every position that holds it.
appended(arg, given, again, id, r) ==
    [stages |-> IF again
                THEN [k \in 1..Len(r.stages) |->
                         IF k <= Len(ident) /\ ident[k] = id
                         THEN r.stage ELSE r.stages[k]]
                ELSE r.stages,
     tables |-> r.tables,
     seen |-> IF r.err = "none" THEN seen \cup {given.kind} ELSE seen,
     last |-> [call |-> "append", arg |-> arg, given |-> given,
               err |-> r.err, stage |-> r.stage, again |-> again],
     ident |-> IF stored_last(r)
               THEN Append(SubSeq(ident, 1, Len(r.stages) - 1),
                           IF again THEN id ELSE Len(r.stages))
               ELSE ident]

\* query.append(given): the state after the call
append_call(arg, given, again, id) ==
    appended(arg, given, again, id, append(stages, tables, given))

\* query.append(stage) with a newly constructed stage: the state after the call
append_new(a) == append_call(a, ConstructOf(a).obj, FALSE, 0)

\* query.append(stage) with the object of position i: the state after the call
append_again(i) ==
    append_call([kind |-> "Again", pos |-> i], stages[i], TRUE, ident[i])

\* The Query goes to the state after, if its sequence stays within bound
Becomes(after, bound) ==
    /\ Len(after.stages) <= bound
    /\ stages' = after.stages
    /\ tables' = after.tables
    /\ seen' = after.seen
    /\ last' = after.last
    /\ ident' = after.ident

\* query.append(stage) with a newly constructed stage.  The call is taken only
\* if the sequence stays within MaxStages.
AppendStage(a) ==
    /\ ConstructOf(a).err = "none"
    /\ Becomes(append_new(a), MaxStages)

\* query.append(stage) with the object of position i, of a kind append writes
\* into, within MaxStages
AppendAgain(i) ==
    /\ i <= Len(stages)
    /\ stages[i].kind \in WrittenKinds
    /\ Becomes(append_again(i), MaxStages)

\* The lists of stages given to extend: one that append takes whole, one that
\* folds, and one whose third stage append rejects
ExtendArgs ==
    {<<TableArg("events"), ProjectionArg(<<"type">>)>>,
     <<TableArg("events"), UniqueArg, CountArg>>,
     <<TableArg("events"), ProjectionArg(<<"type">>),
       AggregationArg(<<PyTuple(<<"COUNT", PyStr("*"), PyStr("n")>>)>>),
       LimitArg(PyInt(5))>>}

\* The Query as it is
self == [stages |-> stages, tables |-> tables, seen |-> seen, ident |-> ident,
         err |-> "none"]

\* The state after query.extend(stages) has left the Query as q
extended(args, q) ==
    [stages |-> q.stages, tables |-> q.tables, seen |-> q.seen,
     last |-> [call |-> "extend", arg |-> args, err |-> q.err],
     ident |-> q.ident]

\* query.extend(stages) with newly constructed stages, within MaxStages
ExtendStages(args) ==
    /\ all_constructed(args)
    /\ Becomes(extended(args, extend(self, constructed(args), 1)), MaxStages)

\* query.render(placeholder): render assigns only to its local variables, and
\* no stage's render assigns to a field
RenderQuery(p) ==
    /\ last' = [call |-> "render", placeholder |-> p,
                result |-> render(stages, tables, p)]
    /\ UNCHANGED <<stages, tables, seen, ident>>

Next ==
    \/ \E a \in StageArgs : ConstructFails(a)
    \/ \E a \in StageArgs : AppendStage(a)
    \/ \E i \in 1..MaxStages : AppendAgain(i)
    \/ \E args \in ExtendArgs : ExtendStages(args)
    \/ \E p \in Placeholders : RenderQuery(p)

Spec == Init /\ [][Next]_vars

NextValues ==
    \/ \E a \in ValueArgs : ConstructFails(a)
    \/ \E a \in ValueArgs : AppendStage(a)
    \/ \E i \in 1..MaxStages : AppendAgain(i)
    \/ \E args \in ExtendArgs : ExtendStages(args)
    \/ \E p \in Placeholders : RenderQuery(p)

SpecValues == Init /\ [][NextValues]_vars

NextInj ==
    \/ \E a \in InjArgs : ConstructFails(a)
    \/ \E a \in InjArgs : AppendStage(a)
    \/ \E i \in 1..MaxStages : AppendAgain(i)
    \/ \E args \in ExtendArgs : ExtendStages(args)
    \/ \E p \in Placeholders : RenderQuery(p)

SpecInj == Init /\ [][NextInj]_vars

\* query.append(stage) as in AppendStage, within MaxClauses
AppendClause(a) ==
    /\ ConstructOf(a).err = "none"
    /\ Becomes(append_new(a), MaxClauses)

\* query.append(stage) as in AppendAgain, within MaxClauses
AppendClauseAgain(i) ==
    /\ i <= Len(stages)
    /\ stages[i].kind \in WrittenKinds
    /\ Becomes(append_again(i), MaxClauses)

\* query.extend(stages) as in ExtendStages, within MaxClauses
ExtendClauses(args) ==
    /\ all_constructed(args)
    /\ Becomes(extended(args, extend(self, constructed(args), 1)), MaxClauses)

NextClauses ==
    \/ \E a \in ClauseArgs : ConstructFails(a)
    \/ \E a \in ClauseArgs : AppendClause(a)
    \/ \E i \in 1..MaxClauses : AppendClauseAgain(i)
    \/ \E args \in ExtendArgs : ExtendClauses(args)
    \/ \E p \in Placeholders : RenderQuery(p)

SpecClauses == Init /\ [][NextClauses]_vars

NextJoins ==
    \/ \E a \in JoinsArgs : ConstructFails(a)
    \/ \E a \in JoinsArgs : AppendClause(a)
    \/ \E i \in 1..MaxClauses : AppendClauseAgain(i)
    \/ \E args \in ExtendArgs : ExtendClauses(args)
    \/ \E p \in Placeholders : RenderQuery(p)

SpecJoins == Init /\ [][NextJoins]_vars

(***************************************************************************)
(* Properties                                                              *)
(***************************************************************************)
Rendered == last.call = "render"

RenderedOk == last.call = "render" /\ last.result.err = "none"

AppendCalled(kind) == last.call = "append" /\ last.given.kind = kind

\* A Projection stage is in the stored sequence
ProjectionStored == \E i \in 1..Len(stages) : stages[i].kind = "Projection"

\* C3: while no Table stage has been appended, render fails with InvalidQuery,
\* whatever else was appended; once a Table stage has been appended, render never
\* fails with the "no table" InvalidQuery.
C3_NoTableRenderFails ==
    Rendered =>
        IF "Table" \notin seen
        THEN last.result.err = "InvalidQuery"
        ELSE ~(last.result.err = "InvalidQuery" /\ last.result.msg = "no table")

\* render failed for want of a table although other stages are stored
C3_Witness ==
    /\ Rendered
    /\ "Table" \notin seen
    /\ Len(stages) >= 2
    /\ last.result.err = "InvalidQuery"

\* C4 as stated: once a Projection has been appended, every later append of an
\* Aggregation fails with InvalidQuery.
C4_Original ==
    (AppendCalled("Aggregation") /\ "Projection" \in seen)
        => last.err = "InvalidQuery"

\* C4 amended: an append of an Aggregation made while a Projection stage is in the
\* stored sequence fails with InvalidQuery and stores nothing, whatever stages
\* follow the Projection.
C4_AggregationAfterStoredProjection ==
    [][(/\ last'.call = "append"
        /\ last'.given.kind = "Aggregation"
        /\ ProjectionStored)
       => (last'.err = "InvalidQuery" /\ stages' = stages)]_vars

\* an Aggregation was rejected with another stage stored after the Projection
C4_Witness ==
    /\ AppendCalled("Aggregation")
    /\ last.err = "InvalidQuery"
    /\ \E i \in 1..Len(stages) - 1 : stages[i].kind = "Projection"

\* C5: the stored sequence never holds an Aggregation at a position after a
\* Projection.
C5_NoAggregationAfterProjection ==
    \A i, j \in 1..Len(stages) :
        (i < j /\ stages[i].kind = "Projection") => stages[j].kind # "Aggregation"

\* both kinds are stored (in the order the rule allows) and an Aggregation that
\* would have followed the Projection was turned away
C5_Witness ==
    /\ \E i, j \in 1..Len(stages) :
           i < j /\ stages[i].kind = "Aggregation" /\ stages[j].kind = "Projection"
    /\ AppendCalled("Aggregation")
    /\ last.err = "InvalidQuery"

\* sub occurs in text as a run of consecutive pieces
ContainsPieces(text, sub) ==
    \E k \in 1..(Len(text) - Len(sub) + 1) :
        SubSeq(text, k, k + Len(sub) - 1) = sub

ProjectionAB == [kind |-> "Projection", cols |-> <<"a", "b">>]

CountUniqueAB == [kind |-> "CountUnique", cols |-> <<"a", "b">>]

CountDistinctAB ==
    <<"COUNT(DISTINCT ", "\"", "a", "\"", ", ", "\"", "b", "\"", ") AS \"count\"">>

SelectAB == <<"SELECT", " ", "\"", "a", "\"", ", ", "\"", "b", "\"", " ">>

\* What C6 promises of the stages and of the text after Count was appended to a
\* sequence whose last two stages are the given pair: one CountUnique over a,b in
\* their place, its expression in the text, and no SELECT "a", "b" in the text
\* (unless another Projection is stored before the pair)
C6_Folded(before_pair) ==
    /\ last'.err = "none"
    /\ stages' = Append(before_pair, CountUniqueAB)
    /\ tables' # <<>> =>
           LET r == render(stages', tables', "?")
           IN  /\ r.err = "none"
               /\ ContainsPieces(r.query, CountDistinctAB)
               /\ (\A i \in 1..Len(before_pair) :
                       before_pair[i].kind # "Projection")
                  => ~ContainsPieces(r.query, SelectAB)

\* C6 as stated: appending Unique, then Projection(["a","b"]), then Count leaves
\* one CountUnique over a,b in their place, and render emits
\* COUNT(DISTINCT "a", "b") AS "count" without the Projection's SELECT list.
C6_Original ==
    [][(/\ last'.call = "append"
        /\ last'.arg = CountArg
        /\ Len(stages) >= 2
        /\ stages[Len(stages) - 1].kind = "Unique"
        /\ stages[Len(stages)] = ProjectionAB)
       => C6_Folded(SubSeq(stages, 1, Len(stages) - 2))]_vars

\* C6 amended: appending Projection(["a","b"]), then Unique, then Count leaves one
\* CountUnique over a,b in their place, and with a Table stored render emits
\* COUNT(DISTINCT "a", "b") AS "count" without the folded Projection's SELECT list.
C6_ProjectionUniqueCount ==
    [][(/\ last'.call = "append"
        /\ last'.arg = CountArg
        /\ Len(stages) >= 2
        /\ stages[Len(stages) - 1] = ProjectionAB
        /\ stages[Len(stages)].kind = "Unique")
       => C6_Folded(SubSeq(stages, 1, Len(stages) - 2))]_vars

\* Count has just been folded with Unique and Projection(["a","b"]) over a table
C6_Witness ==
    /\ last.call = "append"
    /\ last.arg = CountArg
    /\ tables # <<>>
    /\ stages # <<>>
    /\ stages[Len(stages)] = CountUniqueAB

\* the first n stored stages stay where they are after the append just made;
\* a stage that is the appended object itself shows what the append wrote into it
StagesStay(n) ==
    /\ Len(stages') >= n
    /\ \A k \in 1..n :
          IF last'.again /\ ident[k] = ident[last'.arg.pos]
          THEN stages'[k] = last'.stage
          ELSE stages'[k] = stages[k]

\* C7: append removes stored stages only in the folds.  Count after Unique: the
\* Unique goes and a CountUnique is stored, with the columns of the Projection
\* before the Unique, which goes too, if there is one.  CountUnique after
\* Projection: the Projection goes and its columns become the CountUnique's.  In
\* every other case no stored stage is removed.
C7_FoldRules ==
    [][last'.call = "append" =>
        LET n == Len(stages)
            kind == last'.given.kind
        IN  IF last'.err = "none" /\ kind = "Count" /\ n >= 1
               /\ stages[n].kind = "Unique"
            THEN IF n >= 2 /\ stages[n - 1].kind = "Projection"
                 THEN /\ Len(stages') = n - 1
                      /\ StagesStay(n - 2)
                      /\ stages'[n - 1] = [kind |-> "CountUnique",
                                           cols |-> stages[n - 1].cols]
                 ELSE /\ Len(stages') = n
                      /\ StagesStay(n - 1)
                      /\ stages'[n] = [kind |-> "CountUnique", cols |-> <<>>]
            ELSE IF last'.err = "none" /\ kind = "CountUnique" /\ n >= 1
                    /\ stages[n].kind = "Projection"
            THEN /\ Len(stages') = n
                 /\ StagesStay(n - 1)
                 /\ stages'[n] = [kind |-> "CountUnique",
                                  cols |-> stages[n].cols]
            ELSE StagesStay(n)]_vars

\* a CountUnique has just absorbed the Projection before it
C7_Witness ==
    /\ AppendCalled("CountUnique")
    /\ last.err = "none"
    /\ stages # <<>>
    /\ stages[Len(stages)].kind = "CountUnique"
    /\ stages[Len(stages)].cols # <<>>

\* C8: a Join appended directly after a Join built from the same arguments is
\* dropped: the second append stores nothing.
C8_IdenticalJoinDropped ==
    [][(/\ last.call = "append"
        /\ last.arg.kind = "Join"
        /\ last.err = "none"
        /\ stages # <<>>
        /\ stages[Len(stages)].kind = "Join"
        /\ last'.call = "append"
        /\ last'.arg = last.arg)
       => (last'.err = "none" /\ stages' = stages)]_vars

C9_Args ==
    <<TableArg("events"), GroupArg(<<"type">>),
      AggregationArg(<<PyTuple(<<"COUNT", PyStr("*"), PyStr("n")>>)>>)>>

C9_Stored ==
    <<[kind |-> "Table", name |-> "events"],
      [kind |-> "Group", cols |-> <<"type">>],
      [kind |-> "Aggregation", aggs |-> << <<"COUNT", PyStr("*"), PyStr("n")>> >>,
       group_cols |-> <<"type">>]>>

C9_Text == "SELECT \"type\", COUNT(*) AS \"n\" FROM \"events\" GROUP BY \"type\""

C9_WithProjection ==
    <<[kind |-> "Table", name |-> "events"],
      [kind |-> "Projection", cols |-> <<"type">>],
      [kind |-> "Group", cols |-> <<"type">>]>>

\* C9 as stated: with Table("events"), Projection(["type"]) and Group(["type"])
\* stored, the append of Aggregation([("COUNT","*","n")]) is accepted.
C9_Original ==
    (/\ last.call = "append"
     /\ last.arg = C9_Args[3]
     /\ Len(stages) >= 3
     /\ SubSeq(stages, 1, 3) = C9_WithProjection)
    => last.err = "none"

\* C9 amended: appending Table("events"), Group(["type"]) and
\* Aggregation([("COUNT","*","n")]) in order is accepted by every append and
\* renders SELECT "type", COUNT(*) AS "n" FROM "events" GROUP BY "type"; with
\* Projection(["type"]) appended between the Table and the Group, the append of
\* the Aggregation fails with InvalidQuery.
C9_GroupThenAggregation ==
    [][/\ \A k \in 1..3 :
            (/\ last'.call = "append"
             /\ last'.arg = C9_Args[k]
             /\ stages = SubSeq(C9_Stored, 1, k - 1))
            => /\ last'.err = "none"
               /\ stages' = SubSeq(C9_Stored, 1, k)
               /\ k = 3 =>
                      LET r == render(stages', tables', "?")
                      IN  /\ r.err = "none"
                          /\ Flatten(r.query) = C9_Text
                          /\ r.values = <<>>
       /\ (/\ last'.call = "append"
           /\ last'.arg = C9_Args[3]
           /\ stages = C9_WithProjection)
          => (last'.err = "InvalidQuery" /\ stages' = stages)]_vars

\* the three stages are stored and the Aggregation was the last one appended
C9_Witness ==
    /\ last.call = "append"
    /\ last.arg = C9_Args[3]
    /\ last.err = "none"
    /\ stages = C9_Stored

\* the number of pieces of text that are the placeholder
CountPlaceholders(text, placeholder) ==
    Cardinality({i \in 1..Len(text) : text[i] = placeholder})

\* C1: whenever render returns, the text holds as many placeholders as there are
\* bound values.
C1_PlaceholdersMatchValues ==
    RenderedOk =>
        CountPlaceholders(last.result.query, last.placeholder)
            = Len(last.result.values)

\* Whether every string of a predicate that render writes as syntax was validated
\* or taken from an allow-list
PredicateChecked(p) ==
    /\ validate_path(p.lhs)
    /\ p.op \in COMP_OPS \cup {"NOT LIKE"}
    /\ p.rhs.t = "Column" =>
           /\ _validate_column_name(p.rhs.name)
           /\ Truthy(p.rhs.table) => validate_name(str(p.rhs.table))
           /\ Truthy(p.rhs.alias) => validate_path(str(p.rhs.alias))

\* The same of a stored stage
SyntaxChecked(stage) ==
    CASE stage.kind = "Table" -> validate_name(stage.name)
      [] stage.kind \in {"Projection", "Group", "CountUnique"} ->
             all_valid_columns(stage.cols)
      [] stage.kind = "Order" ->
             \A i \in 1..Len(stage.cols) :
                 /\ validate_path(stage.cols[i][1])
                 /\ stage.cols[i][2] \in {OrderASC, OrderDESC}
      [] stage.kind = "Aggregation" ->
             /\ all_valid_columns(stage.group_cols)
             /\ \A i \in 1..Len(stage.aggs) :
                    /\ upper(stage.aggs[i][1]) \in AGG_FUNCS
                    /\ Truthy(stage.aggs[i][2]) =>
                           _validate_column(str(stage.aggs[i][2]))
                    /\ Truthy(stage.aggs[i][3]) =>
                           validate_path(str(stage.aggs[i][3]))
      [] stage.kind = "Filter" ->
             /\ stage.op \in {FilterAND, FilterOR}
             /\ \A i \in 1..Len(stage.preds) : PredicateChecked(stage.preds[i])
      [] stage.kind = "Join" ->
             /\ validate_name(stage.name)
             /\ upper(stage.how) \in JOIN_TYPES
             /\ Truthy(stage.alias) => validate_name(str(stage.alias))
             /\ Truthy(stage.left_col) =>
                    /\ validate_name(str(stage.prev_name))
                    /\ _validate_column(str(stage.left_col))
                    /\ str(stage.op) \in COMP_OPS
                    /\ _validate_column(str(stage.right_col))
             /\ (~Truthy(stage.left_col) /\ stage.preds.t = "list") =>
                    \A i \in 1..Len(stage.preds.v) :
                        PredicateChecked(stage.preds.v[i])
      [] OTHER -> TRUE

\* C2: every string of a stored stage that render writes into the text as syntax
\* passed validate_name or validate_path or is a member of an allow-list, so the
\* text render returns holds no string that was not checked.
C2_SyntaxIsChecked ==
    /\ \A i \in 1..Len(stages) : SyntaxChecked(stages[i])
    /\ RenderedOk => \A i \in 1..Len(last.result.query) :
                         last.result.query[i] # Evil

\* C10: with exactly one Table stage stored, render returns, and the text begins
\* with SELECT and contains FROM "<name>" for the Table's name.
C10_OneTableRenders ==
    (Rendered /\ Cardinality({i \in 1..Len(stages) : stages[i].kind = "Table"}) = 1)
    => /\ last.result.err = "none"
       /\ startswith_SELECT(last.result.query)
       /\ \A i \in 1..Len(stages) :
              stages[i].kind = "Table" =>
                  ContainsPieces(last.result.query,
                                 <<"FROM \"", stages[i].name, "\"">>)

\* The operators Predicate.__init__ lets through with a null right-hand value
NullOps == {"=", "!=", "<>", "IS", "IS NOT"}

\* The null tests a Predicate renders as
NullTexts(p) ==
    {Flatten(<<"(">> \o _quote(p.lhs) \o <<" IS NULL)">>),
     Flatten(<<"(">> \o _quote(p.lhs) \o <<" IS NOT NULL)">>)}

\* C11: a Predicate with a null right-hand value is constructed exactly when its
\* operator is one of =, !=, <>, IS, IS NOT, and fails with
\* InvalidComparisonOperator otherwise; every such Predicate that was
\* constructed renders without error as ("<col>" IS NULL) or
\* ("<col>" IS NOT NULL) and holds no bound value.
C11_NullPredicateRenders ==
    /\ (last.call = "append" /\ last.arg.kind = "Filter")
       => \A i \in 1..Len(last.arg.preds) :
              last.arg.preds[i][3] = PyNone => last.arg.preds[i][2] \in NullOps
    /\ (last.call = "construct" /\ last.arg.kind = "Filter"
        /\ \E i \in 1..Len(last.arg.preds) :
               /\ last.arg.preds[i][3] = PyNone
               /\ last.arg.preds[i][2] \notin NullOps)
       => last.err = "InvalidComparisonOperator"
    /\ \A i \in 1..Len(stages) :
           stages[i].kind = "Filter" =>
               \A j \in 1..Len(stages[i].preds) :
                   LET p == stages[i].preds[j]
                   IN  IsNullStr(p.rhs) =>
                           \A ph \in Placeholders :
                               /\ Predicate_render(p, ph).err = "none"
                               /\ Flatten(Predicate_render(p, ph).text)
                                      \in NullTexts(p)
                               /\ p.values = <<>>

\* the left-hand table names given explicitly to the Joins of JoinsArgs
LhsGiven == {a.lhs : a \in {x \in JoinsArgs : x.kind = "Join" /\ Truthy(x.lhs)}}

\* C13: appending a Join when the last stage is neither a Table nor a Join, the
\* empty Query included, fails with InvalidQuery; so every stored Join comes
\* directly after a Table or a Join and has a non-empty left-hand table name,
\* which is the explicit one if one was given and else the name of the stage
\* directly before it.
C13_JoinAfterTableOrJoin ==
    /\ \A i \in 1..Len(stages) :
           stages[i].kind = "Join" =>
               /\ i > 1
               /\ stages[i - 1].kind \in {"Table", "Join"}
               /\ Truthy(stages[i].prev_name)
               /\ stages[i].prev_name \in LhsGiven \cup {PyStr(stages[i - 1].name)}
    /\ AppendCalled("Join") =>
           IF last.err = "none"
           THEN /\ Len(stages) >= 2
                /\ stages[Len(stages)].kind = "Join"
                /\ stages[Len(stages) - 1].kind \in {"Table", "Join"}
                /\ ~last.again =>
                       stages[Len(stages)].prev_name =
                           IF Truthy(last.arg.lhs) THEN last.arg.lhs
                           ELSE PyStr(stages[Len(stages) - 1].name)
           ELSE /\ last.err = "InvalidQuery"
                /\ last_stage(stages).kind \notin {"Table", "Join"}

\* the number of pieces of text that are the keyword
CountKeyword(text, keyword) ==
    Cardinality({i \in 1..Len(text) : text[i] = keyword})

\* The Filter stages that no Filter and no Aggregation precedes in the sequence
FirstFilters(stgs) ==
    {i \in 1..Len(stgs) :
        /\ stgs[i].kind = "Filter"
        /\ \A j \in 1..(i - 1) : stgs[j].kind \notin {"Filter", "Aggregation"}}

\* C14: render introduces a Filter with WHERE only if no Filter and no
\* Aggregation precedes it in the stage sequence, and with AND or HAVING if one
\* does; so the text rendered for a sequence with one Table, here the first
\* stage, holds at most one WHERE, and holds as many keywords WHERE, AND and
\* HAVING as there are Filters.
C14_OneWhere ==
    (/\ RenderedOk
     /\ stages[1].kind = "Table"
     /\ Cardinality({i \in 1..Len(stages) : stages[i].kind = "Table"}) = 1)
    => LET text == last.result.query
           filters == {i \in 1..Len(stages) : stages[i].kind = "Filter"}
       IN  /\ CountKeyword(text, "WHERE") = Cardinality(FirstFilters(stages))
           /\ CountKeyword(text, "WHERE") <= 1
           /\ CountKeyword(text, "WHERE") + CountKeyword(text, "AND")
                  + CountKeyword(text, "HAVING") = Cardinality(filters)

\* The stage sequence with its Projection, at position from, moved to position to
MoveStage(stgs, from, to) ==
    LET rest == SubSeq(stgs, 1, from - 1) \o SubSeq(stgs, from + 1, Len(stgs))
    IN  SubSeq(rest, 1, to - 1) \o <<stgs[from]>> \o SubSeq(rest, to, Len(rest))

\* C15: for a stage sequence of a Table followed by one Projection and any
\* number of Filter, Group, Order, Limit and Offset stages, render returns the
\* same text and the same bound values wherever after the Table the Projection
\* stands, the order of the other stages kept.
C15_ProjectionAnywhere ==
    (/\ Rendered
     /\ stages # <<>>
     /\ stages[1].kind = "Table"
     /\ Cardinality({i \in 1..Len(stages) : stages[i].kind = "Projection"}) = 1
     /\ \A i \in 2..Len(stages) :
            stages[i].kind \in
                {"Projection", "Filter", "Group", "Order", "Limit", "Offset"})
    => \A from \in 2..Len(stages) :
           stages[from].kind = "Projection" =>
               \A to \in 2..Len(stages) :
                   LET moved == render(MoveStage(stages, from, to), tables,
                                       last.placeholder)
                   IN  /\ moved.err = last.result.err
                       /\ moved.err = "none" =>
                              /\ Flatten(moved.query)
                                     = Flatten(last.result.query)
                              /\ moved.values = last.result.values

\* Count is appended to a sequence that ends with a Unique, holds no Projection
\* and, rendered without the Unique, selects every column of a table
C16_CountAfterUnique ==
    /\ last'.call = "append"
    /\ last'.arg = CountArg
    /\ stages # <<>>
    /\ stages[Len(stages)].kind = "Unique"
    /\ \A i \in 1..Len(stages) : stages[i].kind # "Projection"
    /\ LET before == render(pop(stages), tables, "?")
       IN  /\ before.err = "none"
           /\ SubSeq(before.query, 1, 3) = <<"SELECT", " ", "* ">>

\* C16 as stated: when Count is appended directly after Unique and no Projection
\* precedes the Unique, the rendered query is a plain SELECT COUNT(*) AS "count"
\* over the table's rows, with no DISTINCT in it.
C16_Original ==
    [][C16_CountAfterUnique =>
          LET before == render(pop(stages), tables, "?")
              r == render(stages', tables', "?")
          IN  /\ r.err = "none"
              /\ Flatten(r.query) =
                     "SELECT COUNT(*) AS \"count\" "
                         \o Flatten(SubSeq(before.query, 4, Len(before.query)))
              /\ \A i \in 1..Len(r.query) :
                     r.query[i] \notin {"DISTINCT ", "DISTINCT * ",
                                        " FROM (SELECT DISTINCT * "}]_vars

\* C16 amended: when Count is appended directly after Unique and no Projection
\* is stored, the Unique is replaced by a CountUnique without columns, and the
\* rendered query counts the distinct rows: it is SELECT COUNT(*) AS "count"
\* FROM (SELECT DISTINCT * <the clauses of the stages before the Unique>) AS tmp.
C16_CountsDistinctRows ==
    [][C16_CountAfterUnique =>
          LET before == render(pop(stages), tables, "?")
              r == render(stages', tables', "?")
          IN  /\ last'.err = "none"
              /\ stages' = Append(pop(stages),
                                  [kind |-> "CountUnique", cols |-> <<>>])
              /\ r.err = "none"
              /\ Flatten(r.query) =
                     "SELECT COUNT(*) AS \"count\" FROM (SELECT DISTINCT * "
                         \o Flatten(SubSeq(before.query, 4, Len(before.query)))
                         \o ") AS tmp"
              /\ r.values = before.values]_vars

\* Count has just been appended to Table("events"), Unique
C16_Witness ==
    /\ last.call = "append"
    /\ last.arg = CountArg
    /\ stages = <<[kind |-> "Table", name |-> "events"],
                  [kind |-> "CountUnique", cols |-> <<>>]>>
    /\ Flatten(render(stages, tables, "?").query) =
           "SELECT COUNT(*) AS \"count\" FROM (SELECT DISTINCT * FROM \"events\") AS tmp"

\* C17: the stored sequence never holds a Count directly after a Unique, so
\* render never takes the branch that wraps the text as the subquery of a Count:
\* no rendered text holds its FROM ( piece.
C17_NoCountAfterUnique ==
    /\ \A i \in 2..Len(stages) :
           ~(stages[i].kind = "Count" /\ stages[i - 1].kind = "Unique")
    /\ RenderedOk =>
           \A i \in 1..Len(last.result.query) : last.result.query[i] # " FROM ("

\* Count was appended directly after a Unique and a CountUnique is stored in
\* their place, behind another Unique that stays
C17_Witness ==
    /\ last.call = "append"
    /\ last.arg = CountArg
    /\ last.err = "none"
    /\ Len(stages) >= 2
    /\ stages[Len(stages)].kind = "CountUnique"
    /\ stages[Len(stages) - 1].kind = "Unique"

\* The columns an Aggregation at position i inherits: those of a Group directly
\* before it
InheritedCols(stgs, i) ==
    IF i > 1 /\ stgs[i - 1].kind = "Group" THEN stgs[i - 1].cols ELSE <<>>

\* C18: the grouping columns of a stored Aggregation are the columns of the
\* Group directly before it, and empty when the stage before it is no Group;
\* the caller's Aggregation holds the same after a successful append; and
\* render emits, after SELECT, the grouping columns and then the aggregate
\* expressions: "type", COUNT(*) AS "n" after Group(["type"]) and
\* COUNT(*) AS "n" otherwise for Aggregation([("COUNT", "*", "n")]).
C18_InheritedGroupCols ==
    /\ \A i \in 1..Len(stages) :
           stages[i].kind = "Aggregation" =>
               /\ stages[i].group_cols = InheritedCols(stages, i)
               /\ stages[i].aggs = << <<"COUNT", PyStr("*"), PyStr("n")>> >> =>
                      Flatten(Aggregation_render(stages[i])) =
                          IF InheritedCols(stages, i) = <<"type">>
                          THEN "\"type\", COUNT(*) AS \"n\""
                          ELSE "COUNT(*) AS \"n\""
    /\ (AppendCalled("Aggregation") /\ last.err = "none") =>
           /\ stages[Len(stages)].kind = "Aggregation"
           /\ last.stage = stages[Len(stages)]
           /\ tables # <<>> =>
                  LET r == render(stages, tables, "?")
                      list == Aggregation_render(last.stage)
                  IN  /\ r.err = "none"
                      /\ SubSeq(r.query, 1, 2 + Len(list))
                             = <<"SELECT", " ">> \o list

\* C19: append drops a Join only if it is the same as the Join before it in
\* every field its rendering reads, the predicate list included: a dropped Join
\* would have rendered the text of the Join that is kept, and holds the same
\* bound values.
C19_DroppedJoinRendersSame ==
    [][(/\ last'.call = "append"
        /\ last'.given.kind = "Join"
        /\ last'.err = "none"
        /\ stages' = stages)
       => LET stays == stages[Len(stages)]
              dropped == last'.stage
          IN  /\ dropped.preds = stays.preds
              /\ dropped.values = stays.values
              /\ \A ph \in Placeholders :
                     Join_render(dropped, ph) = Join_render(stays, ph)]_vars

\* C20: an append that fails with InvalidQuery, which an Aggregation does when a
\* Projection is stored and a Join when the last stage is neither a Table nor a
\* Join, leaves the stage sequence and the table stack as they were before the
\* call, and the fields of the rejected stage as the caller passed them.
C20_RejectedAppendChangesNothing ==
    [][(last'.call = "append" /\ last'.err = "InvalidQuery")
       => /\ last'.given.kind \in {"Aggregation", "Join"}
          /\ stages' = stages
          /\ tables' = tables
          /\ last'.stage = last'.given]_vars

\* An Aggregation was rejected while the last stage is a Group, whose columns it
\* would have inherited
C20_Witness ==
    /\ AppendCalled("Aggregation")
    /\ last.err = "InvalidQuery"
    /\ last_stage(stages).kind = "Group"
    /\ last.stage.group_cols = <<>>
    /\ tables # <<>>

====
